---- MODULE Spec2Model ----
(***************************************************************************)
(* Request lifecycle of the blood-donation backend: the handlers that      *)
(* create, accept, fulfil, verify, cancel and update a Request document,   *)
(* together with the two blood-group tables they consult.                  *)
(*                                                                         *)
(* Every handler is an async function; between two awaits other handlers   *)
(* may run.  A handler in flight is a record in `calls`; each action below *)
(* is the code of one handler between two of its awaits.  `width` is the   *)
(* number of handlers that may be in flight together: 1 in Spec, where the *)
(* HTTP requests arrive one after the other, 2 in the specifications of    *)
(* overlapping requests.                                                   *)
(*                                                                         *)
(* The repository holds two implementations of the request handlers with   *)
(* the same exported names.  The ones in src/routes/requestRoutes.js carry *)
(* the suffix A here, the ones in src/controllers/requestController.js the *)
(* suffix B.                                                               *)
(***************************************************************************)
EXTENDS Integers, Sequences, FiniteSets, TLC

VARIABLES users, requests, donations, calls, now, width, compat,
          socketStore, io

vars == <<users, requests, donations, calls, now, width, compat,
          socketStore, io>>

(***************************************************************************)
(* Bounds of the model                                                     *)
(***************************************************************************)
MaxRequests == 1
MaxDonationCount == 4
MaxDonations == 2

(***************************************************************************)
(* Values                                                                  *)
(***************************************************************************)
\* threeMonthsAgo.setMonth(threeMonthsAgo.getMonth() - 3)
EligibilityMonths == 3

NULL == "null"
NoDate == -1
\* donorRating.rating of a request that nobody has rated
NoRating == 0
ABSENT == "absent"

BloodGroups == {"A+", "A-", "B+", "B-", "AB+", "AB-", "O+", "O-"}
Statuses == {"pending", "matched", "fulfilled", "expired", "cancelled"}
Roles == {"donor", "requester", "doctor", "ngo", "admin"}

UserIds == {"d1", "d2", "r1", "dr", "ad"}
\* the _id values of the Request collection
RequestIds == DOMAIN requests
CallIds == 1..2

\* socket.id of the connections, and the user ids their clients send
SocketIds == {"s1", "s2", "s3"}
SocketUserIds == {"d1", "r1"}

\* blood groups a request is created with in the lifecycle model
RequestGroups == {"A+", "O-"}

(***************************************************************************)
(* Blood-group tables                                                      *)
(***************************************************************************)
\* the donor-side table with O+ wrongly allowed to give to O-
compatibility_Mutant ==
  [g \in BloodGroups |->
     CASE g = "O-"  -> {"O-", "O+", "A-", "A+", "B-", "B+", "AB-", "AB+"}
       [] g = "O+"  -> {"O-", "O+", "A+", "B+", "AB+"}
       [] g = "A-"  -> {"A-", "A+", "AB-", "AB+"}
       [] g = "A+"  -> {"A+", "AB+"}
       [] g = "B-"  -> {"B-", "B+", "AB-", "AB+"}
       [] g = "B+"  -> {"B+", "AB+"}
       [] g = "AB-" -> {"AB-", "AB+"}
       [] g = "AB+" -> {"AB+"}]

compatibility ==
  [g \in BloodGroups |->
     CASE g = "O-"  -> {"O-", "O+", "A-", "A+", "B-", "B+", "AB-", "AB+"}
       [] g = "O+"  -> {"O+", "A+", "B+", "AB+"}
       [] g = "A-"  -> {"A-", "A+", "AB-", "AB+"}
       [] g = "A+"  -> {"A+", "AB+"}
       [] g = "B-"  -> {"B-", "B+", "AB-", "AB+"}
       [] g = "B+"  -> {"B+", "AB+"}
       [] g = "AB-" -> {"AB-", "AB+"}
       [] g = "AB+" -> {"AB+"}]

\* compatibility[donorBloodGroup]?.includes(requesterBloodGroup) || false
isBloodCompatible(donorBloodGroup, requesterBloodGroup) ==
  IF donorBloodGroup \in DOMAIN compatibility
    THEN requesterBloodGroup \in compatibility[donorBloodGroup]
    ELSE FALSE

compatibilityMap ==
  [g \in BloodGroups |->
     CASE g = "O-"  -> {"O-", "O+", "A-", "A+", "B-", "B+", "AB-", "AB+"}
       [] g = "O+"  -> {"O+", "A+", "B+", "AB+"}
       [] g = "A-"  -> {"A-", "A+", "AB-", "AB+"}
       [] g = "A+"  -> {"A+", "AB+"}
       [] g = "B-"  -> {"B-", "B+", "AB-", "AB+"}
       [] g = "B+"  -> {"B+", "AB+"}
       [] g = "AB-" -> {"AB-", "AB+"}
       [] g = "AB+" -> {"AB+"}]

\* compatibilityMap[donor.bloodGroup] || []
compatibleGroups(donorBloodGroup) ==
  IF donorBloodGroup \in DOMAIN compatibilityMap
    THEN compatibilityMap[donorBloodGroup]
    ELSE {}

\* the recipient-side table with B- missing from the donors of AB-
compatibleDonorGroups_Mutant ==
  [g \in BloodGroups |->
     CASE g = "A+"  -> {"A+", "A-", "O+", "O-"}
       [] g = "A-"  -> {"A-", "O-"}
       [] g = "B+"  -> {"B+", "B-", "O+", "O-"}
       [] g = "B-"  -> {"B-", "O-"}
       [] g = "AB+" -> {"A+", "A-", "B+", "B-", "AB+", "AB-", "O+", "O-"}
       [] g = "AB-" -> {"A-", "AB-", "O-"}
       [] g = "O+"  -> {"O+", "O-"}
       [] g = "O-"  -> {"O-"}]

compatibleDonorGroups ==
  [g \in BloodGroups |->
     CASE g = "A+"  -> {"A+", "A-", "O+", "O-"}
       [] g = "A-"  -> {"A-", "O-"}
       [] g = "B+"  -> {"B+", "B-", "O+", "O-"}
       [] g = "B-"  -> {"B-", "O-"}
       [] g = "AB+" -> {"A+", "A-", "B+", "B-", "AB+", "AB-", "O+", "O-"}
       [] g = "AB-" -> {"A-", "B-", "AB-", "O-"}
       [] g = "O+"  -> {"O+", "O-"}
       [] g = "O-"  -> {"O-"}]

(***************************************************************************)
(* Identifiers as the handlers see them.  protect stores the user's _id,   *)
(* an ObjectId, in req.user.id; the handlers compare it with ===/!== to    *)
(* the string that toString() makes of a stored reference.                 *)
(***************************************************************************)
ObjectId(u) == [type |-> "ObjectId", hex |-> u]
toString(o) == [type |-> "string", hex |-> o.hex]
StrictEquals(a, b) == a = b

\* req.user as protect builds it
reqUser(u) == [id |-> ObjectId(u), role |-> users[u].role]

\* protect lets a request through when the user exists and is active
protect(u) == users[u].isActive

\* restrictTo(...roles) lets a request through when req.user.role is listed
restrictTo(roles, u) == reqUser(u).role \in roles

(***************************************************************************)
(* Documents                                                               *)
(***************************************************************************)
NoRequest ==
  [requester |-> NULL, bloodGroup |-> ABSENT, status |-> ABSENT,
   assignedDonor |-> NULL, matchedAt |-> NoDate, fulfilledAt |-> NoDate,
   verifiedBy |-> NULL, verifiedAt |-> NoDate, donorRating |-> NoRating]

\* new Request({requester, bloodGroup, ..., status: 'pending'}) with the
\* schema defaults
NewRequest(u, g) ==
  [requester |-> u, bloodGroup |-> g, status |-> "pending",
   assignedDonor |-> NULL, matchedAt |-> NoDate, fulfilledAt |-> NoDate,
   verifiedBy |-> NULL, verifiedAt |-> NoDate, donorRating |-> NoRating]

Exists(rid) == requests[rid].status # ABSENT

DateFields == {"matchedAt", "fulfilledAt", "verifiedAt"}

\* document.save(): a $set of the paths the handler modified, by _id
SaveModified(db, orig, doc, assigned) ==
  [f \in DOMAIN db |->
     IF f \in assigned /\ (f \in DateFields \/ doc[f] # orig[f])
       THEN doc[f] ELSE db[f]]

\* req.body without any of the modelled fields
NoBody ==
  [bloodGroup |-> ABSENT, status |-> ABSENT, assignedDonor |-> ABSENT,
   donorRating |-> NoRating]
NoDonor == [donationCount |-> 0, lastDonationDate |-> NoDate]

NoNotified == [u \in UserIds |-> 0]

IdleCall ==
  [op |-> "none", pc |-> "idle", actor |-> NULL, rid |-> 0,
   orig |-> NoRequest, doc |-> NoRequest, body |-> NoBody,
   verification |-> ABSENT, donationDate |-> NoDate,
   donor |-> NoDonor, notified |-> NoNotified, failed |-> {},
   potentialDonors |-> 0, result |-> "none"]

Idle(c) == calls[c].pc = "idle"

\* a handler that threw or responded: its locals are gone
Finish(c, res) ==
  [IdleCall EXCEPT !.op = calls[c].op, !.actor = calls[c].actor,
                   !.rid = calls[c].rid, !.notified = calls[c].notified,
                   !.pc = "done", !.result = res]

\* the handler of call c moves on to its next await
Goto(c, rec) == calls' = [calls EXCEPT ![c] = rec]

InFlight == {k \in CallIds : ~Idle(k)}

\* a new call takes the lowest free slot, while fewer than width are in flight
FreeSlot(c) ==
  /\ Idle(c)
  /\ \A k \in CallIds : k < c => ~Idle(k)
  /\ Cardinality(InFlight) < width

\* a call that ends in its first step
Reject(o, u, rid, res) ==
  [IdleCall EXCEPT !.op = o, !.actor = u, !.rid = rid, !.pc = "done", !.result = res]

StartCall(o, u, rid) ==
  [IdleCall EXCEPT !.op = o, !.actor = u, !.rid = rid, !.result = "running"]

\* notifyUser(user, ...) resolved: one more notification for user
Notify(rec, u) == [rec EXCEPT !.notified[u] = @ + 1]

(***************************************************************************)
(* Initial state: the registered users, no request, no call in flight.     *)
(* Dates are counted in months; today is month 3, so that month 0 lies     *)
(* three months back.  No handler reads the clock for anything but a       *)
(* timestamp, so the clock stands still.                                   *)
(***************************************************************************)
\* avgRating (in tenths) and ratingCount are the two fields that rateDonor
\* sets on the donor document; a donor nobody has rated has neither
NewUser(r, g) ==
  [role |-> r, bloodGroup |-> g, isAvailable |-> FALSE, isActive |-> TRUE,
   lastDonationDate |-> NoDate, donationCount |-> 0,
   avgRating |-> 0, ratingCount |-> 0]

\* new SocketStore(): two empty maps, and no socket connected
NoSockets ==
  /\ socketStore = [userSockets |-> [u \in SocketUserIds |-> NULL],
                    socketUsers |-> [s \in SocketIds |-> NULL]]
  /\ io = [sockets |-> [s \in SocketIds |-> "new"],
           latest |-> [u \in SocketUserIds |-> NULL]]

NoCompat == [donor |-> ABSENT, recipient |-> ABSENT, table |-> "none", answer |-> FALSE]

Init ==
  /\ users = [u \in UserIds |->
               CASE u = "d1" -> NewUser("donor", "O-")
                 [] u = "d2" -> NewUser("donor", "A+")
                 [] u = "r1" -> NewUser("requester", "A+")
                 [] u = "dr" -> NewUser("doctor", ABSENT)
                 [] u = "ad" -> NewUser("admin", ABSENT)]
  /\ requests = [i \in 1..MaxRequests |-> NoRequest]
  /\ donations = <<>>
  /\ calls = [c \in CallIds |-> IdleCall]
  /\ now = EligibilityMonths
  /\ width = 1
  /\ NoSockets
  /\ compat = NoCompat

(***************************************************************************)
(* toggleAvailability                                                      *)
(***************************************************************************)
toggleAvailability_Begin(c, u) ==
  /\ FreeSlot(c) /\ protect(u)
  /\ LET o == "toggleAvailability"
     IN Goto(c, IF ~restrictTo({"donor", "admin"}, u)
                  THEN Reject(o, u, 0, "AuthorizationError")
                ELSE IF users[u].role # "donor"
                  THEN Reject(o, u, 0, "NotFound")
                ELSE [StartCall(o, u, 0) EXCEPT
                        !.pc = "save",
                        !.verification = IF users[u].isAvailable THEN "off" ELSE "on"])
  /\ UNCHANGED <<users, requests, donations, now, width, socketStore, io, compat>>

toggleAvailability_Save(c) ==
  /\ calls[c].op = "toggleAvailability" /\ calls[c].pc = "save"
  /\ users' = [users EXCEPT ![calls[c].actor].isAvailable = (calls[c].verification = "on")]
  /\ Goto(c, Finish(c, "ok"))
  /\ UNCHANGED <<requests, donations, now, width, socketStore, io, compat>>

toggleAvailability ==
  \/ \E c \in CallIds, u \in UserIds : toggleAvailability_Begin(c, u)
  \/ \E c \in CallIds : toggleAvailability_Save(c)

(***************************************************************************)
(* createRequest                                                           *)
(***************************************************************************)
FreeIds == {i \in RequestIds : ~Exists(i)}
NextId == CHOOSE i \in FreeIds : \A j \in FreeIds : i <= j

\* User.find({role: 'donor', isAvailable: true, isActive: true, bloodGroup})
findNearbyDonors(bloodGroup) ==
  {d \in UserIds : /\ users[d].role = "donor"
                   /\ users[d].isAvailable
                   /\ users[d].isActive
                   /\ users[d].bloodGroup = bloodGroup}

createRequest_Begin(c, u, g, o) ==
  /\ FreeSlot(c) /\ protect(u)
  /\ Goto(c, IF ~restrictTo({"requester", "admin", "ngo"}, u)
               THEN Reject(o, u, 0, "AuthorizationError")
             ELSE IF g = ABSENT
               THEN Reject(o, u, 0, "ValidationError")
             ELSE [StartCall(o, u, 0) EXCEPT
                     !.pc = "save", !.doc = NewRequest(reqUser(u).id.hex, g)])
  /\ UNCHANGED <<users, requests, donations, now, width, socketStore, io, compat>>

\* await request.save(), then the donors are looked up and notified
createRequestA_Save(c) ==
  /\ calls[c].op = "createRequestA" /\ calls[c].pc = "save"
  /\ FreeIds # {}
  /\ requests' = [requests EXCEPT ![NextId] = calls[c].doc]
  /\ Goto(c, [calls[c] EXCEPT !.pc = "notify", !.rid = NextId])
  /\ UNCHANGED <<users, donations, now, width, socketStore, io, compat>>

\* the loop over the donors with a notifyUser that throws at the first
\* failure, as the other handlers call it
createRequestA_Notify_Mutant(c, failed) ==
  /\ calls[c].op = "createRequestA" /\ calls[c].pc = "notify"
  /\ Goto(c, IF failed # {}
               THEN [Finish(c, "ServerError") EXCEPT !.failed = failed]
               ELSE [Finish(c, "ok") EXCEPT
                       !.notified = [d \in UserIds |->
                          IF d \in findNearbyDonors(calls[c].doc.bloodGroup)
                            THEN 1 ELSE 0],
                       !.potentialDonors =
                          Cardinality(findNearbyDonors(calls[c].doc.bloodGroup))])
  /\ UNCHANGED <<users, requests, donations, now, width, socketStore, io, compat>>

\* each notifyUser sits in its own try/catch: the donors in failed are the
\* ones whose notification threw; the response carries potentialDonors
createRequestA_Notify(c, failed) ==
  /\ calls[c].op = "createRequestA" /\ calls[c].pc = "notify"
  /\ Goto(c, [Finish(c, "ok") EXCEPT
               !.notified = [d \in UserIds |->
                  IF d \in findNearbyDonors(calls[c].doc.bloodGroup) \ failed
                    THEN 1 ELSE 0],
               !.failed = failed,
               !.potentialDonors =
                  Cardinality(findNearbyDonors(calls[c].doc.bloodGroup))])
  /\ UNCHANGED <<users, requests, donations, now, width, socketStore, io, compat>>

createRequestA ==
  \/ \E c \in CallIds, u \in UserIds, g \in RequestGroups \cup {ABSENT} :
       createRequest_Begin(c, u, g, "createRequestA")
  \/ \E c \in CallIds : createRequestA_Save(c)
  \/ \E c \in CallIds :
       \E failed \in SUBSET findNearbyDonors(calls[c].doc.bloodGroup) :
         createRequestA_Notify(c, failed)

createRequestB_Save(c) ==
  /\ calls[c].op = "createRequestB" /\ calls[c].pc = "save"
  /\ FreeIds # {}
  /\ requests' = [requests EXCEPT ![NextId] = calls[c].doc]
  /\ Goto(c, [Finish(c, "ok") EXCEPT !.rid = NextId])
  /\ UNCHANGED <<users, donations, now, width, socketStore, io, compat>>

createRequestB ==
  \/ \E c \in CallIds, u \in UserIds, g \in RequestGroups \cup {ABSENT} :
       createRequest_Begin(c, u, g, "createRequestB")
  \/ \E c \in CallIds : createRequestB_Save(c)

(***************************************************************************)
(* acceptRequest                                                           *)
(***************************************************************************)
\* one notifyUser that may resolve or throw; a throw leaves the handler
\* through asyncHandler's catch
NotifyOrThrow(c, u, ok) ==
  IF ok THEN [Finish(c, "ok") EXCEPT !.notified[u] = @ + 1]
        ELSE Finish(c, "ServerError")

acceptRequestA_Begin(c, u, rid) ==
  /\ FreeSlot(c) /\ protect(u)
  /\ LET o == "acceptRequestA"
         call == StartCall(o, u, rid)
         request == requests[rid]
     IN Goto(c, IF ~restrictTo({"donor"}, u)
                  THEN Reject(o, u, rid, "AuthorizationError")
                ELSE IF ~Exists(rid)
                  THEN Reject(o, u, rid, "NotFound")
                ELSE IF reqUser(u).role # "donor"
                  THEN Reject(o, u, rid, "AuthorizationError")
                ELSE IF request.status # "pending"
                  THEN Reject(o, u, rid, "InvalidState")
                ELSE [call EXCEPT !.pc = "findDonor",
                                  !.orig = request, !.doc = request])
  /\ UNCHANGED <<users, requests, donations, now, width, socketStore, io, compat>>

\* const donor = await User.findById(req.user.id), the two donor checks and
\* the assignments up to request.save()
acceptRequestA_FindDonor(c) ==
  /\ calls[c].op = "acceptRequestA" /\ calls[c].pc = "findDonor"
  /\ LET donor == users[calls[c].actor]
     IN Goto(c, IF ~donor.isAvailable
                  THEN Finish(c, "Unavailable")
                ELSE IF ~isBloodCompatible(donor.bloodGroup, calls[c].doc.bloodGroup)
                  THEN Finish(c, "Incompatible")
                ELSE [calls[c] EXCEPT
                        !.pc = "save",
                        !.doc = [@ EXCEPT !.status = "matched",
                                          !.assignedDonor = calls[c].actor,
                                          !.matchedAt = now]])
  /\ UNCHANGED <<users, requests, donations, now, width, socketStore, io, compat>>

acceptRequest_Save(c, o) ==
  /\ calls[c].op = o /\ calls[c].pc = "save"
  /\ requests' = [requests EXCEPT ![calls[c].rid] =
       SaveModified(@, calls[c].orig, calls[c].doc,
                    {"status", "assignedDonor", "matchedAt"})]
  /\ Goto(c, [calls[c] EXCEPT !.pc = "notify"])
  /\ UNCHANGED <<users, donations, now, width, socketStore, io, compat>>

\* the requester is looked up and notified, then the response is sent
acceptRequest_Notify(c, o, ok) ==
  /\ calls[c].op = o /\ calls[c].pc = "notify"
  /\ Goto(c, NotifyOrThrow(c, calls[c].doc.requester, ok))
  /\ UNCHANGED <<users, requests, donations, now, width, socketStore, io, compat>>

acceptRequestA ==
  \/ \E c \in CallIds, u \in UserIds, rid \in RequestIds : acceptRequestA_Begin(c, u, rid)
  \/ \E c \in CallIds : acceptRequestA_FindDonor(c)
  \/ \E c \in CallIds : acceptRequest_Save(c, "acceptRequestA")
  \/ \E c \in CallIds, ok \in BOOLEAN : acceptRequest_Notify(c, "acceptRequestA", ok)

\* acceptRequest without its check of the request's status
acceptRequestB_Begin_Mutant(c, u, rid) ==
  /\ FreeSlot(c) /\ protect(u)
  /\ LET o == "acceptRequestB"
         call == StartCall(o, u, rid)
         request == requests[rid]
         donorId == reqUser(u).id
     IN Goto(c, IF ~restrictTo({"donor"}, u)
                  THEN Reject(o, u, rid, "AuthorizationError")
                ELSE IF ~Exists(rid)
                  THEN Reject(o, u, rid, "NotFound")
                ELSE IF StrictEquals(toString(ObjectId(request.requester)), donorId)
                  THEN Reject(o, u, rid, "AuthorizationError")
                ELSE [call EXCEPT
                        !.pc = "save", !.orig = request,
                        !.doc = [request EXCEPT !.assignedDonor = donorId.hex,
                                                !.status = "matched",
                                                !.matchedAt = now]])
  /\ UNCHANGED <<users, requests, donations, now, width, socketStore, io, compat>>

acceptRequestB_Begin(c, u, rid) ==
  /\ FreeSlot(c) /\ protect(u)
  /\ LET o == "acceptRequestB"
         call == StartCall(o, u, rid)
         request == requests[rid]
         donorId == reqUser(u).id
     IN Goto(c, IF ~restrictTo({"donor"}, u)
                  THEN Reject(o, u, rid, "AuthorizationError")
                ELSE IF ~Exists(rid)
                  THEN Reject(o, u, rid, "NotFound")
                ELSE IF request.status # "pending"
                  THEN Reject(o, u, rid, "InvalidState")
                ELSE IF StrictEquals(toString(ObjectId(request.requester)), donorId)
                  THEN Reject(o, u, rid, "AuthorizationError")
                ELSE [call EXCEPT
                        !.pc = "save", !.orig = request,
                        !.doc = [request EXCEPT !.assignedDonor = donorId.hex,
                                                !.status = "matched",
                                                !.matchedAt = now]])
  /\ UNCHANGED <<users, requests, donations, now, width, socketStore, io, compat>>

acceptRequestB ==
  \/ \E c \in CallIds, u \in UserIds, rid \in RequestIds : acceptRequestB_Begin(c, u, rid)
  \/ \E c \in CallIds : acceptRequest_Save(c, "acceptRequestB")
  \/ \E c \in CallIds, ok \in BOOLEAN : acceptRequest_Notify(c, "acceptRequestB", ok)

(***************************************************************************)
(* cancelRequest                                                           *)
(***************************************************************************)
\* request.requester.toString() !== req.user.id && req.user.role !== 'admin'
NotOwnerNorAdmin(request, u) ==
  /\ ~StrictEquals(toString(ObjectId(request.requester)), reqUser(u).id)
  /\ reqUser(u).role # "admin"

cancelRequestA_Begin(c, u, rid) ==
  /\ FreeSlot(c) /\ protect(u)
  /\ LET o == "cancelRequestA"
         call == StartCall(o, u, rid)
         request == requests[rid]
     IN Goto(c, IF ~Exists(rid)
                  THEN Reject(o, u, rid, "NotFound")
                ELSE IF NotOwnerNorAdmin(request, u)
                  THEN Reject(o, u, rid, "AuthorizationError")
                ELSE IF request.status = "fulfilled"
                  THEN Reject(o, u, rid, "InvalidState")
                ELSE IF request.status = "matched" /\ request.assignedDonor # NULL
                  THEN [call EXCEPT !.pc = "notifyDonor",
                                    !.orig = request, !.doc = request]
                ELSE [call EXCEPT !.pc = "save", !.orig = request,
                                  !.doc = [request EXCEPT !.status = "cancelled"]])
  /\ UNCHANGED <<users, requests, donations, now, width, socketStore, io, compat>>

\* the assigned donor is looked up and notified before the status is set
cancelRequestA_NotifyDonor(c, ok) ==
  /\ calls[c].op = "cancelRequestA" /\ calls[c].pc = "notifyDonor"
  /\ Goto(c, IF ok
               THEN [Notify(calls[c], calls[c].doc.assignedDonor) EXCEPT
                       !.pc = "save", !.doc.status = "cancelled"]
               ELSE Finish(c, "ServerError"))
  /\ UNCHANGED <<users, requests, donations, now, width, socketStore, io, compat>>

cancelRequestA_Save(c) ==
  /\ calls[c].op = "cancelRequestA" /\ calls[c].pc = "save"
  /\ requests' = [requests EXCEPT ![calls[c].rid] =
       SaveModified(@, calls[c].orig, calls[c].doc, {"status"})]
  /\ Goto(c, Finish(c, "ok"))
  /\ UNCHANGED <<users, donations, now, width, socketStore, io, compat>>

cancelRequestA ==
  \/ \E c \in CallIds, u \in UserIds, rid \in RequestIds : cancelRequestA_Begin(c, u, rid)
  \/ \E c \in CallIds, ok \in BOOLEAN : cancelRequestA_NotifyDonor(c, ok)
  \/ \E c \in CallIds : cancelRequestA_Save(c)

cancelRequestB_Begin(c, u, rid) ==
  /\ FreeSlot(c) /\ protect(u)
  /\ LET o == "cancelRequestB"
         call == StartCall(o, u, rid)
         request == requests[rid]
     IN Goto(c, IF ~Exists(rid)
                  THEN Reject(o, u, rid, "NotFound")
                ELSE IF NotOwnerNorAdmin(request, u)
                  THEN Reject(o, u, rid, "AuthorizationError")
                ELSE IF request.status \in {"fulfilled", "cancelled", "expired"}
                  THEN Reject(o, u, rid, "InvalidState")
                ELSE [call EXCEPT !.pc = "save", !.orig = request,
                                  !.doc = [request EXCEPT !.status = "cancelled"]])
  /\ UNCHANGED <<users, requests, donations, now, width, socketStore, io, compat>>

cancelRequestB_Save(c) ==
  /\ calls[c].op = "cancelRequestB" /\ calls[c].pc = "save"
  /\ requests' = [requests EXCEPT ![calls[c].rid] =
       SaveModified(@, calls[c].orig, calls[c].doc, {"status"})]
  /\ Goto(c, IF calls[c].doc.assignedDonor # NULL
               THEN [calls[c] EXCEPT !.pc = "notifyDonor"]
               ELSE Finish(c, "ok"))
  /\ UNCHANGED <<users, donations, now, width, socketStore, io, compat>>

cancelRequestB_NotifyDonor(c, ok) ==
  /\ calls[c].op = "cancelRequestB" /\ calls[c].pc = "notifyDonor"
  /\ Goto(c, NotifyOrThrow(c, calls[c].doc.assignedDonor, ok))
  /\ UNCHANGED <<users, requests, donations, now, width, socketStore, io, compat>>

cancelRequestB ==
  \/ \E c \in CallIds, u \in UserIds, rid \in RequestIds : cancelRequestB_Begin(c, u, rid)
  \/ \E c \in CallIds : cancelRequestB_Save(c)
  \/ \E c \in CallIds, ok \in BOOLEAN : cancelRequestB_NotifyDonor(c, ok)

(***************************************************************************)
(* updateRequest                                                           *)
(***************************************************************************)
\* the request bodies of the model: one field each
UpdateBodies ==
  {[NoBody EXCEPT !.bloodGroup = "O-"],
   [NoBody EXCEPT !.status = "fulfilled"],
   [NoBody EXCEPT !.assignedDonor = "r1"]}

\* the document with the listed fields of the body written over it
Assign(request, body, fields) ==
  [f \in DOMAIN request |->
     IF f \in fields /\ f \in DOMAIN body /\ body[f] # NoBody[f]
       THEN body[f] ELSE request[f]]

updateRequestA_Begin(c, u, rid, body) ==
  /\ FreeSlot(c) /\ protect(u)
  /\ LET o == "updateRequestA"
         call == StartCall(o, u, rid)
         request == requests[rid]
     IN Goto(c, IF ~Exists(rid)
                  THEN Reject(o, u, rid, "NotFound")
                ELSE IF NotOwnerNorAdmin(request, u)
                  THEN Reject(o, u, rid, "AuthorizationError")
                ELSE IF request.status \in {"matched", "fulfilled"}
                  THEN Reject(o, u, rid, "InvalidState")
                ELSE [call EXCEPT !.pc = "update", !.body = body])
  /\ UNCHANGED <<users, requests, donations, now, width, socketStore, io, compat>>

\* Request.findByIdAndUpdate(id, {...req.body, updatedAt}, {runValidators})
updateRequestA_Update(c) ==
  /\ calls[c].op = "updateRequestA" /\ calls[c].pc = "update"
  /\ requests' = [requests EXCEPT ![calls[c].rid] =
       Assign(@, calls[c].body, DOMAIN calls[c].body)]
  /\ Goto(c, Finish(c, "ok"))
  /\ UNCHANGED <<users, donations, now, width, socketStore, io, compat>>

updateRequestA ==
  \/ \E c \in CallIds, u \in UserIds, rid \in RequestIds, body \in UpdateBodies :
       updateRequestA_Begin(c, u, rid, body)
  \/ \E c \in CallIds : updateRequestA_Update(c)

\* the modelled ones of 'bloodGroup', 'units', ..., 'isPublic'
updatableFields == {"bloodGroup"}

updateRequestB_Begin(c, u, rid, body) ==
  /\ FreeSlot(c) /\ protect(u)
  /\ LET o == "updateRequestB"
         call == StartCall(o, u, rid)
         request == requests[rid]
     IN Goto(c, IF ~Exists(rid)
                  THEN Reject(o, u, rid, "NotFound")
                ELSE IF NotOwnerNorAdmin(request, u)
                  THEN Reject(o, u, rid, "AuthorizationError")
                ELSE IF request.status \in {"fulfilled", "cancelled", "expired"}
                  THEN Reject(o, u, rid, "InvalidState")
                ELSE [call EXCEPT !.pc = "save", !.orig = request,
                                  !.doc = Assign(request, body, updatableFields)])
  /\ UNCHANGED <<users, requests, donations, now, width, socketStore, io, compat>>

updateRequestB_Save(c) ==
  /\ calls[c].op = "updateRequestB" /\ calls[c].pc = "save"
  /\ requests' = [requests EXCEPT ![calls[c].rid] =
       SaveModified(@, calls[c].orig, calls[c].doc, updatableFields)]
  /\ Goto(c, Finish(c, "ok"))
  /\ UNCHANGED <<users, donations, now, width, socketStore, io, compat>>

updateRequestB ==
  \/ \E c \in CallIds, u \in UserIds, rid \in RequestIds, body \in UpdateBodies :
       updateRequestB_Begin(c, u, rid, body)
  \/ \E c \in CallIds : updateRequestB_Save(c)

(***************************************************************************)
(* fulfillRequest                                                          *)
(***************************************************************************)
\* donor.donationCount = (donor.donationCount || 0) + 1 and the new
\* lastDonationDate, on the donor document just read
CountDonation(d, date) ==
  [donationCount |-> users[d].donationCount + 1, lastDonationDate |-> date]

\* donor.save()
SaveDonor(d, donor) ==
  [users EXCEPT ![d].donationCount = donor.donationCount,
                ![d].lastDonationDate = donor.lastDonationDate]

\* the model stops counting donations at MaxDonationCount: a handler that
\* would count n more for the donor of the request is not started
CountsLeft(rid, n) ==
  requests[rid].assignedDonor # NULL =>
    users[requests[rid].assignedDonor].donationCount + n <= MaxDonationCount

fulfillRequestA_Begin(c, u, rid) ==
  /\ FreeSlot(c) /\ protect(u)
  /\ CountsLeft(rid, 1)
  /\ LET o == "fulfillRequestA"
         call == StartCall(o, u, rid)
         request == requests[rid]
     IN Goto(c, IF ~restrictTo({"doctor"}, u)
                  THEN Reject(o, u, rid, "AuthorizationError")
                ELSE IF ~Exists(rid)
                  THEN Reject(o, u, rid, "NotFound")
                ELSE IF reqUser(u).role # "doctor"
                  THEN Reject(o, u, rid, "AuthorizationError")
                ELSE IF request.status # "matched"
                  THEN Reject(o, u, rid, "InvalidState")
                ELSE [call EXCEPT
                        !.pc = "save", !.orig = request,
                        !.doc = [request EXCEPT !.status = "fulfilled",
                                                !.verifiedBy = reqUser(u).id.hex,
                                                !.verifiedAt = now,
                                                !.fulfilledAt = now]])
  /\ UNCHANGED <<users, requests, donations, now, width, socketStore, io, compat>>

fulfillRequest_Save(c, o, next) ==
  /\ calls[c].op = o /\ calls[c].pc = "save"
  /\ requests' = [requests EXCEPT ![calls[c].rid] =
       SaveModified(@, calls[c].orig, calls[c].doc,
                    {"status", "verifiedBy", "verifiedAt", "fulfilledAt"})]
  /\ Goto(c, [calls[c] EXCEPT !.pc = next])
  /\ UNCHANGED <<users, donations, now, width, socketStore, io, compat>>

\* const donor = await User.findById(request.assignedDonor)
fulfillRequestA_FindDonor(c) ==
  /\ calls[c].op = "fulfillRequestA" /\ calls[c].pc = "findDonor"
  /\ LET d == calls[c].doc.assignedDonor
     IN Goto(c, IF d = NULL
                  THEN [calls[c] EXCEPT !.pc = "notifyRequester"]
                  ELSE [calls[c] EXCEPT !.pc = "saveDonor",
                                        !.donor = CountDonation(d, now)])
  /\ UNCHANGED <<users, requests, donations, now, width, socketStore, io, compat>>

fulfillRequestA_SaveDonor(c) ==
  /\ calls[c].op = "fulfillRequestA" /\ calls[c].pc = "saveDonor"
  /\ calls[c].donor.donationCount <= MaxDonationCount
  /\ users' = SaveDonor(calls[c].doc.assignedDonor, calls[c].donor)
  /\ Goto(c, [calls[c] EXCEPT !.pc = "notifyDonor"])
  /\ UNCHANGED <<requests, donations, now, width, socketStore, io, compat>>

\* a notifyUser in the middle of a handler: on a throw the handler ends
NotifyThen(c, u, ok, next) ==
  IF ok THEN [Notify(calls[c], u) EXCEPT !.pc = next]
        ELSE Finish(c, "ServerError")

fulfillRequestA_NotifyDonor(c, ok) ==
  /\ calls[c].op = "fulfillRequestA" /\ calls[c].pc = "notifyDonor"
  /\ Goto(c, NotifyThen(c, calls[c].doc.assignedDonor, ok, "notifyRequester"))
  /\ UNCHANGED <<users, requests, donations, now, width, socketStore, io, compat>>

fulfillRequestA_NotifyRequester(c, ok) ==
  /\ calls[c].op = "fulfillRequestA" /\ calls[c].pc = "notifyRequester"
  /\ Goto(c, NotifyOrThrow(c, calls[c].doc.requester, ok))
  /\ UNCHANGED <<users, requests, donations, now, width, socketStore, io, compat>>

fulfillRequestA ==
  \/ \E c \in CallIds, u \in UserIds, rid \in RequestIds : fulfillRequestA_Begin(c, u, rid)
  \/ \E c \in CallIds : fulfillRequest_Save(c, "fulfillRequestA", "findDonor")
  \/ \E c \in CallIds : fulfillRequestA_FindDonor(c)
  \/ \E c \in CallIds : fulfillRequestA_SaveDonor(c)
  \/ \E c \in CallIds, ok \in BOOLEAN : fulfillRequestA_NotifyDonor(c, ok)
  \/ \E c \in CallIds, ok \in BOOLEAN : fulfillRequestA_NotifyRequester(c, ok)

fulfillRequestB_Begin(c, u, rid) ==
  /\ FreeSlot(c) /\ protect(u)
  /\ LET o == "fulfillRequestB"
         call == StartCall(o, u, rid)
         request == requests[rid]
         doctorId == reqUser(u).id
     IN Goto(c, IF ~restrictTo({"doctor"}, u)
                  THEN Reject(o, u, rid, "AuthorizationError")
                ELSE IF ~Exists(rid)
                  THEN Reject(o, u, rid, "NotFound")
                ELSE IF request.status # "matched"
                  THEN Reject(o, u, rid, "InvalidState")
                ELSE [call EXCEPT
                        !.pc = "save", !.orig = request,
                        !.doc = [request EXCEPT !.status = "fulfilled",
                                                !.fulfilledAt = now,
                                                !.verifiedBy = doctorId.hex,
                                                !.verifiedAt = now]])
  /\ UNCHANGED <<users, requests, donations, now, width, socketStore, io, compat>>

fulfillRequestB_NotifyRequester(c, ok) ==
  /\ calls[c].op = "fulfillRequestB" /\ calls[c].pc = "notifyRequester"
  /\ Goto(c, IF ~ok THEN Finish(c, "ServerError")
             ELSE IF calls[c].doc.assignedDonor # NULL
               THEN [Notify(calls[c], calls[c].doc.requester) EXCEPT !.pc = "notifyDonor"]
             ELSE NotifyOrThrow(c, calls[c].doc.requester, TRUE))
  /\ UNCHANGED <<users, requests, donations, now, width, socketStore, io, compat>>

fulfillRequestB_NotifyDonor(c, ok) ==
  /\ calls[c].op = "fulfillRequestB" /\ calls[c].pc = "notifyDonor"
  /\ Goto(c, NotifyOrThrow(c, calls[c].doc.assignedDonor, ok))
  /\ UNCHANGED <<users, requests, donations, now, width, socketStore, io, compat>>

fulfillRequestB ==
  \/ \E c \in CallIds, u \in UserIds, rid \in RequestIds : fulfillRequestB_Begin(c, u, rid)
  \/ \E c \in CallIds : fulfillRequest_Save(c, "fulfillRequestB", "notifyRequester")
  \/ \E c \in CallIds, ok \in BOOLEAN : fulfillRequestB_NotifyRequester(c, ok)
  \/ \E c \in CallIds, ok \in BOOLEAN : fulfillRequestB_NotifyDonor(c, ok)

(***************************************************************************)
(* verifyDonation, with the post('save') hook of the Donation schema       *)
(***************************************************************************)
\* new Donation({donor, request, requester, bloodGroup, ..., status})
NewDonation(request, rid, u, date, status) ==
  [donor |-> request.assignedDonor, request |-> rid,
   requester |-> request.requester, bloodGroup |-> request.bloodGroup,
   donationDate |-> date, verifiedBy |-> u, status |-> status]

verifyDonation_Begin(c, u, rid, status, donationDate) ==
  /\ FreeSlot(c) /\ protect(u)
  /\ CountsLeft(rid, 2) /\ Len(donations) < MaxDonations
  /\ LET o == "verifyDonation"
         call == StartCall(o, u, rid)
         request == requests[rid]
     IN Goto(c, IF ~restrictTo({"doctor", "admin"}, u)
                  THEN Reject(o, u, rid, "AuthorizationError")
                ELSE IF status = ABSENT
                  THEN Reject(o, u, rid, "ValidationError")
                ELSE IF ~Exists(rid)
                  THEN Reject(o, u, rid, "NotFound")
                ELSE IF request.status = "fulfilled"
                  THEN Reject(o, u, rid, "InvalidState")
                ELSE IF request.status # "matched"
                  THEN Reject(o, u, rid, "InvalidState")
                ELSE IF request.assignedDonor = NULL
                  THEN Reject(o, u, rid, "ServerError")
                ELSE [call EXCEPT !.pc = "saveDonation",
                                  !.orig = request, !.doc = request,
                                  !.verification = status,
                                  !.donationDate = donationDate])
  /\ UNCHANGED <<users, requests, donations, now, width, socketStore, io, compat>>

\* the assignments with the status fulfilled whatever the verification says
Verified_Mutant(c) ==
  [calls[c].doc EXCEPT
     !.status = "fulfilled",
     !.verifiedBy = reqUser(calls[c].actor).id.hex,
     !.verifiedAt = now,
     !.fulfilledAt = IF calls[c].verification = "verified" THEN now ELSE @]

\* the assignments between donation.save() and request.save()
Verified(c) ==
  [calls[c].doc EXCEPT
     !.status = IF calls[c].verification = "verified" THEN "fulfilled" ELSE "expired",
     !.verifiedBy = reqUser(calls[c].actor).id.hex,
     !.verifiedAt = now,
     !.fulfilledAt = IF calls[c].verification = "verified" THEN now ELSE @]

\* await donation.save(): the insert; the hook runs before save() resolves
verifyDonation_SaveDonation(c) ==
  /\ calls[c].op = "verifyDonation" /\ calls[c].pc = "saveDonation"
  /\ Len(donations) < MaxDonations
  /\ donations' = Append(donations,
       NewDonation(calls[c].doc, calls[c].rid, calls[c].actor,
                   calls[c].donationDate, calls[c].verification))
  /\ Goto(c, IF calls[c].verification = "verified"
               THEN [calls[c] EXCEPT !.pc = "hookFindDonor"]
               ELSE [calls[c] EXCEPT !.pc = "saveRequest", !.doc = Verified(c)])
  /\ UNCHANGED <<users, requests, now, width, socketStore, io, compat>>

\* donationSchema.post('save'): const donor = await User.findById(doc.donor)
postSave_FindDonor(c) ==
  /\ calls[c].op = "verifyDonation" /\ calls[c].pc = "hookFindDonor"
  /\ Goto(c, [calls[c] EXCEPT
               !.pc = "hookSaveDonor",
               !.donor = CountDonation(calls[c].doc.assignedDonor, calls[c].donationDate)])
  /\ UNCHANGED <<users, requests, donations, now, width, socketStore, io, compat>>

\* donationSchema.post('save'): await donor.save()
postSave_SaveDonor(c) ==
  /\ calls[c].op = "verifyDonation" /\ calls[c].pc = "hookSaveDonor"
  /\ calls[c].donor.donationCount <= MaxDonationCount
  /\ users' = SaveDonor(calls[c].doc.assignedDonor, calls[c].donor)
  /\ Goto(c, [calls[c] EXCEPT !.pc = "saveRequest", !.doc = Verified(c)])
  /\ UNCHANGED <<requests, donations, now, width, socketStore, io, compat>>

verifyDonation_SaveRequest(c) ==
  /\ calls[c].op = "verifyDonation" /\ calls[c].pc = "saveRequest"
  /\ requests' = [requests EXCEPT ![calls[c].rid] =
       SaveModified(@, calls[c].orig, calls[c].doc,
                    {"status", "verifiedBy", "verifiedAt"} \cup
                      IF calls[c].verification = "verified"
                        THEN {"fulfilledAt"} ELSE {})]
  /\ Goto(c, [calls[c] EXCEPT
               !.pc = IF calls[c].verification = "verified"
                        THEN "findDonor" ELSE "notifyDonor"])
  /\ UNCHANGED <<users, donations, now, width, socketStore, io, compat>>

verifyDonation_FindDonor(c) ==
  /\ calls[c].op = "verifyDonation" /\ calls[c].pc = "findDonor"
  /\ Goto(c, [calls[c] EXCEPT
               !.pc = "saveDonor",
               !.donor = CountDonation(calls[c].doc.assignedDonor, calls[c].donationDate)])
  /\ UNCHANGED <<users, requests, donations, now, width, socketStore, io, compat>>

verifyDonation_SaveDonor(c) ==
  /\ calls[c].op = "verifyDonation" /\ calls[c].pc = "saveDonor"
  /\ calls[c].donor.donationCount <= MaxDonationCount
  /\ users' = SaveDonor(calls[c].doc.assignedDonor, calls[c].donor)
  /\ Goto(c, [calls[c] EXCEPT !.pc = "notifyDonor"])
  /\ UNCHANGED <<requests, donations, now, width, socketStore, io, compat>>

verifyDonation_NotifyDonor(c, ok) ==
  /\ calls[c].op = "verifyDonation" /\ calls[c].pc = "notifyDonor"
  /\ Goto(c, NotifyThen(c, calls[c].doc.assignedDonor, ok, "notifyRequester"))
  /\ UNCHANGED <<users, requests, donations, now, width, socketStore, io, compat>>

verifyDonation_NotifyRequester(c, ok) ==
  /\ calls[c].op = "verifyDonation" /\ calls[c].pc = "notifyRequester"
  /\ Goto(c, NotifyOrThrow(c, calls[c].doc.requester, ok))
  /\ UNCHANGED <<users, requests, donations, now, width, socketStore, io, compat>>

verifyDonation ==
  \/ \E c \in CallIds, u \in UserIds, rid \in RequestIds,
        status \in {"verified", "rejected", ABSENT}, date \in {0, now} :
       verifyDonation_Begin(c, u, rid, status, date)
  \/ \E c \in CallIds : verifyDonation_SaveDonation(c)
  \/ \E c \in CallIds : postSave_FindDonor(c)
  \/ \E c \in CallIds : postSave_SaveDonor(c)
  \/ \E c \in CallIds : verifyDonation_SaveRequest(c)
  \/ \E c \in CallIds : verifyDonation_FindDonor(c)
  \/ \E c \in CallIds : verifyDonation_SaveDonor(c)
  \/ \E c \in CallIds, ok \in BOOLEAN : verifyDonation_NotifyDonor(c, ok)
  \/ \E c \in CallIds, ok \in BOOLEAN : verifyDonation_NotifyRequester(c, ok)

(***************************************************************************)
(* The end of a call                                                       *)
(***************************************************************************)
\* the response has been delivered; the slot is free again
Return(c) ==
  /\ calls[c].pc = "done"
  /\ calls' = [calls EXCEPT ![c] = IdleCall]
  /\ UNCHANGED <<users, requests, donations, now, width, socketStore, io, compat>>

Next ==
  \/ toggleAvailability
  \/ createRequestA
  \/ createRequestB
  \/ acceptRequestA
  \/ acceptRequestB
  \/ cancelRequestA
  \/ cancelRequestB
  \/ updateRequestA
  \/ updateRequestB
  \/ fulfillRequestA
  \/ fulfillRequestB
  \/ verifyDonation
  \/ \E c \in CallIds : Return(c)

Spec == Init /\ [][Next]_vars

(***************************************************************************)
(* isEligibleToDonate (userSchema.methods)                                 *)
(***************************************************************************)
isEligibleToDonate(user) ==
  IF user.role # "donor" \/ ~user.isAvailable \/ ~user.isActive
    THEN FALSE
  ELSE IF user.lastDonationDate # NoDate
    THEN user.lastDonationDate <= now - EligibilityMonths
  ELSE TRUE

(***************************************************************************)
(* Two accept requests that overlap: a pending request of r1 and two       *)
(* available donors, as Spec reaches them, and room for two handlers.      *)
(***************************************************************************)
InitRace ==
  /\ users = [u \in UserIds |->
               CASE u = "d1" -> [NewUser("donor", "O-") EXCEPT !.isAvailable = TRUE]
                 [] u = "d2" -> [NewUser("donor", "A+") EXCEPT !.isAvailable = TRUE]
                 [] u = "r1" -> NewUser("requester", "A+")
                 [] u = "dr" -> NewUser("doctor", ABSENT)
                 [] u = "ad" -> NewUser("admin", ABSENT)]
  /\ requests = [i \in 1..MaxRequests |->
                  IF i = 1 THEN NewRequest("r1", "A+") ELSE NoRequest]
  /\ donations = <<>>
  /\ calls = [c \in CallIds |-> IdleCall]
  /\ now = EligibilityMonths
  /\ width = 2
  /\ NoSockets
  /\ compat = NoCompat

NextRace ==
  \/ acceptRequestA
  \/ acceptRequestB
  \/ \E c \in CallIds : Return(c)

SpecRace == InitRace /\ [][NextRace]_vars

(***************************************************************************)
(* The blood-group tables, asked about one pair of groups                  *)
(***************************************************************************)
InitCompat ==
  /\ users = [u \in UserIds |->
               CASE u = "d1" -> NewUser("donor", "O-")
                 [] u = "d2" -> NewUser("donor", "A+")
                 [] u = "r1" -> NewUser("requester", "A+")
                 [] u = "dr" -> NewUser("doctor", ABSENT)
                 [] u = "ad" -> NewUser("admin", ABSENT)]
  /\ requests = [i \in 1..MaxRequests |-> NoRequest]
  /\ donations = <<>>
  /\ calls = [c \in CallIds |-> IdleCall]
  /\ now = EligibilityMonths
  /\ width = 1
  /\ NoSockets
  /\ compat \in {[NoCompat EXCEPT !.donor = d, !.recipient = r] :
                   d \in BloodGroups \cup {"unknown"}, r \in BloodGroups}

Ask(table, answer) ==
  /\ compat' = [compat EXCEPT !.table = table, !.answer = answer]
  /\ UNCHANGED <<users, requests, donations, calls, now, width, socketStore, io>>

\* acceptRequest: isBloodCompatible(donor.bloodGroup, request.bloodGroup)
AskIsBloodCompatible ==
  Ask("isBloodCompatible", isBloodCompatible(compat.donor, compat.recipient))

\* getNearbyRequests: bloodGroup: { $in: compatibleGroups }
AskGetNearbyRequests ==
  Ask("compatibilityMap", compat.recipient \in compatibleGroups(compat.donor))

\* getCompatibleDonors: bloodGroup: { $in: compatibleGroups }
AskGetCompatibleDonors ==
  Ask("compatibleDonorGroups", compat.donor \in compatibleDonorGroups[compat.recipient])

NextCompat ==
  \/ AskIsBloodCompatible
  \/ AskGetNearbyRequests
  \/ AskGetCompatibleDonors

SpecCompat == InitCompat /\ [][NextCompat]_vars

(***************************************************************************)
(* Properties                                                              *)
(***************************************************************************)
AcceptOps == {"acceptRequestA", "acceptRequestB"}
FulfillOps == {"fulfillRequestA", "fulfillRequestB", "verifyDonation"}
CancelOps == {"cancelRequestA", "cancelRequestB"}
TerminalStatuses == {"fulfilled", "cancelled", "expired"}

\* call c is started by this step
Begins(c) == calls[c].pc = "idle" /\ calls'[c].pc # "idle"

\* the two slots hold two answered accept calls of two different donors on
\* the same request, neither of them cut short by a notification that threw
TwoAcceptsAnswered ==
  /\ \A c \in CallIds : /\ calls[c].pc = "done"
                        /\ calls[c].op \in AcceptOps
                        /\ users[calls[c].actor].role = "donor"
                        /\ calls[c].result # "ServerError"
  /\ calls[1].rid = calls[2].rid
  /\ Exists(calls[1].rid)
  /\ calls[1].actor # calls[2].actor

\* C1: of two accept calls of different donors on the same pending request
\* exactly one succeeds, the request is matched with that donor, and the
\* other call fails with an invalid-state error.
C1_ExactlyOneAcceptSucceeds ==
  TwoAcceptsAnswered =>
    \E w \in CallIds, l \in CallIds :
      /\ w # l
      /\ calls[w].result = "ok"
      /\ calls[l].result = "InvalidState"
      /\ requests[calls[w].rid].status = "matched"
      /\ requests[calls[w].rid].assignedDonor = calls[w].actor

\* C2: a request has an assigned donor if and only if its status is matched
\* or fulfilled.
C2_AssignedDonorIffMatchedOrFulfilled ==
  \A rid \in RequestIds :
    Exists(rid) =>
      (requests[rid].assignedDonor # NULL
         <=> requests[rid].status \in {"matched", "fulfilled"})

\* C3: verifiedBy, verifiedAt and fulfilledAt are all set if and only if the
\* status is fulfilled, and none of them is set on a request of another
\* status.
C3_VerificationFieldsIffFulfilled ==
  \A rid \in RequestIds :
    Exists(rid) =>
      IF requests[rid].status = "fulfilled"
        THEN /\ requests[rid].verifiedBy # NULL
             /\ requests[rid].verifiedAt # NoDate
             /\ requests[rid].fulfilledAt # NoDate
        ELSE /\ requests[rid].verifiedBy = NULL
             /\ requests[rid].verifiedAt = NoDate
             /\ requests[rid].fulfilledAt = NoDate

LifecycleEdges ==
  {<<"pending", "matched">>, <<"matched", "fulfilled">>,
   <<"pending", "cancelled">>, <<"matched", "cancelled">>,
   <<"pending", "expired">>, <<"matched", "expired">>}

\* C4: every change of a request's status follows an edge of the lifecycle
\* graph, a terminal status never changes, and an accept, fulfill or cancel
\* that reaches its status check on a request of terminal status fails with
\* an invalid-state error.
C4_StatusFollowsLifecycle ==
  [][/\ \A rid \in RequestIds :
          (Exists(rid) /\ requests'[rid].status # requests[rid].status)
            => <<requests[rid].status, requests'[rid].status>> \in LifecycleEdges
     /\ \A c \in CallIds :
          (/\ Begins(c)
           /\ calls'[c].op \in AcceptOps \cup FulfillOps \cup CancelOps
           /\ calls'[c].rid \in RequestIds
           /\ requests[calls'[c].rid].status \in TerminalStatuses
           /\ calls'[c].result \notin {"AuthorizationError", "ValidationError"})
            => calls'[c].pc = "done" /\ calls'[c].result = "InvalidState"]_vars

\* an accept call is started on an existing request that is not pending
AcceptOnNonPending(c) ==
  /\ Begins(c)
  /\ calls'[c].op \in AcceptOps
  /\ Exists(calls'[c].rid)
  /\ requests[calls'[c].rid].status # "pending"

\* C5 (as stated): an accept call on a request that is not pending fails
\* with an invalid-state error and leaves the request as it was.
C5_AcceptOnNonPendingIsInvalidState ==
  [][\A c \in CallIds :
       AcceptOnNonPending(c) =>
         /\ calls'[c].pc = "done"
         /\ calls'[c].result = "InvalidState"
         /\ requests' = requests]_vars

\* C5 (amended): an accept call on a request that is not pending fails and
\* leaves the request as it was; the error is an invalid-state error when
\* the caller is a donor and an authorization error otherwise.
C5_AcceptOnNonPendingRejected ==
  [][\A c \in CallIds :
       AcceptOnNonPending(c) =>
         /\ calls'[c].pc = "done"
         /\ calls'[c].result =
              IF users[calls'[c].actor].role = "donor"
                THEN "InvalidState" ELSE "AuthorizationError"
         /\ requests' = requests]_vars

\* a donor was refused on a request that somebody had accepted before
C5_Witness ==
  \E c \in CallIds :
    /\ calls[c].pc = "done"
    /\ calls[c].op \in AcceptOps
    /\ calls[c].result = "InvalidState"
    /\ users[calls[c].actor].role = "donor"
    /\ requests[calls[c].rid].status = "matched"
    /\ requests[calls[c].rid].assignedDonor # calls[c].actor

\* C6: an accept by the request's own requester is rejected with an
\* authorization error, and no request has its requester as assigned donor.
C6_NoSelfAccept ==
  /\ \A c \in CallIds :
       (/\ calls[c].pc # "idle"
        /\ calls[c].op \in AcceptOps
        /\ Exists(calls[c].rid)
        /\ requests[calls[c].rid].requester = calls[c].actor)
         => calls[c].pc = "done" /\ calls[c].result = "AuthorizationError"
  /\ \A rid \in RequestIds :
       Exists(rid) => requests[rid].assignedDonor # requests[rid].requester

\* call c writes the match it decided on
AcceptSaves(c) ==
  /\ calls[c].op \in AcceptOps
  /\ calls[c].pc = "save"
  /\ calls'[c].pc = "notify"

\* C7: accept succeeds only for a donor whose blood group can be given to
\* the request's group; for an incompatible pair it fails with an
\* incompatibility error and the request stays pending and unassigned.
C7_AcceptOnlyCompatible ==
  [][\A c \in CallIds :
       /\ AcceptSaves(c) =>
            isBloodCompatible(users[calls[c].actor].bloodGroup,
                              requests[calls[c].rid].bloodGroup)
       /\ (/\ Begins(c)
           /\ calls'[c].op \in AcceptOps
           /\ users[calls'[c].actor].role = "donor"
           /\ Exists(calls'[c].rid)
           /\ requests[calls'[c].rid].status = "pending"
           /\ ~isBloodCompatible(users[calls'[c].actor].bloodGroup,
                                 requests[calls'[c].rid].bloodGroup))
            => calls'[c].pc # "save"]_vars

\* C8: accept succeeds only for a donor the eligibility check admits.
C8_AcceptOnlyEligible ==
  [][\A c \in CallIds :
       AcceptSaves(c) => isEligibleToDonate(users[calls[c].actor])]_vars

\* the ABO/Rh rule: the antigens of a blood group
Antigens ==
  [g \in BloodGroups |->
     (IF g \in {"A+", "A-", "AB+", "AB-"} THEN {"A"} ELSE {})
       \cup (IF g \in {"B+", "B-", "AB+", "AB-"} THEN {"B"} ELSE {})
       \cup (IF g \in {"A+", "B+", "AB+", "O+"} THEN {"Rh"} ELSE {})]

CanDonate(d, r) ==
  d \in BloodGroups /\ r \in BloodGroups /\ Antigens[d] \subseteq Antigens[r]

\* C9: the recipient-side table lists donor group D for recipient group G
\* exactly when the donor-side table lets D donate to G.
C9_InverseTables ==
  compat.table = "compatibleDonorGroups" =>
    compat.answer = isBloodCompatible(compat.donor, compat.recipient)

\* getCompatibleDonors was asked whether B- may give to AB-
C9_Witness ==
  /\ compat.table = "compatibleDonorGroups"
  /\ compat.donor = "B-" /\ compat.recipient = "AB-"
  /\ compat.answer

\* C10: isBloodCompatible(d, r) holds exactly when every antigen of d is
\* present in r, an unknown donor group gives false, and the table of
\* getNearbyRequests is the same relation.
C10_StandardRule ==
  compat.table \in {"isBloodCompatible", "compatibilityMap"} =>
    compat.answer = CanDonate(compat.donor, compat.recipient)

\* isBloodCompatible was asked whether O- may give to AB+
C10_Witness ==
  /\ compat.table = "isBloodCompatible"
  /\ compat.donor = "O-" /\ compat.recipient = "AB+"
  /\ compat.answer

(***************************************************************************)
(* The two eligibility checks, asked about one user.  The users' fields    *)
(* and today's date are drawn from all the values the handlers can give    *)
(* them; dates are months 0 .. 2 * EligibilityMonths.                      *)
(***************************************************************************)
Dates == 0..(2 * EligibilityMonths)

InitEligible ==
  /\ users \in {[u \in UserIds |->
                   CASE u = "d1" -> [NewUser("donor", "O-") EXCEPT
                                       !.isAvailable = a, !.isActive = i,
                                       !.lastDonationDate = l]
                     [] u = "d2" -> [NewUser("donor", "A+") EXCEPT !.isAvailable = TRUE]
                     [] u = "r1" -> [NewUser("requester", "A+") EXCEPT !.isAvailable = a]
                     [] u = "dr" -> NewUser("doctor", ABSENT)
                     [] u = "ad" -> NewUser("admin", ABSENT)] :
                  a \in BOOLEAN, i \in BOOLEAN, l \in Dates \cup {NoDate}}
  /\ requests = [i \in 1..MaxRequests |-> NoRequest]
  /\ donations = <<>>
  /\ calls = [c \in CallIds |-> IdleCall]
  /\ now \in EligibilityMonths..(2 * EligibilityMonths)
  /\ width = 1
  /\ NoSockets
  /\ compat = NoCompat

\* user.isEligibleToDonate()
AskIsEligibleToDonate(u) ==
  /\ compat' = [NoCompat EXCEPT !.donor = u, !.table = "isEligibleToDonate",
                                !.answer = isEligibleToDonate(users[u])]
  /\ UNCHANGED <<users, requests, donations, calls, now, width, socketStore, io>>

\* GET /check-eligibility: the handler's own computation of isEligible
checkEligibility(c, u) ==
  /\ FreeSlot(c) /\ protect(u)
  /\ LET o == "checkEligibility"
         donor == users[u]
         threeMonthsAgo == now - EligibilityMonths
         isEligible == ~(/\ donor.lastDonationDate # NoDate
                         /\ donor.lastDonationDate > threeMonthsAgo)
     IN IF ~restrictTo({"donor", "admin"}, u)
          THEN Goto(c, Reject(o, u, 0, "AuthorizationError")) /\ UNCHANGED compat
        ELSE IF donor.role # "donor"
          THEN Goto(c, Reject(o, u, 0, "NotFound")) /\ UNCHANGED compat
        ELSE /\ Goto(c, Reject(o, u, 0, "ok"))
             /\ compat' = [NoCompat EXCEPT !.donor = u, !.table = o,
                                           !.answer = isEligible]
  /\ UNCHANGED <<users, requests, donations, now, width, socketStore, io>>

NextEligible ==
  \/ \E u \in UserIds : AskIsEligibleToDonate(u)
  \/ \E c \in CallIds, u \in UserIds : checkEligibility(c, u)
  \/ \E c \in CallIds : Return(c)

SpecEligible == InitEligible /\ [][NextEligible]_vars

\* the rule of the eligibility check, as the claim gives it
Eligible(user) ==
  /\ user.role = "donor" /\ user.isAvailable /\ user.isActive
  /\ \/ user.lastDonationDate = NoDate
     \/ user.lastDonationDate + EligibilityMonths <= now

\* C11: the eligibility check answers true exactly for an available, active
\* donor who never donated or whose last donation lies three months or more
\* back, and false for everybody else.
C11_EligibilityRule ==
  compat.table \in {"isEligibleToDonate", "checkEligibility"} =>
    compat.answer = Eligible(users[compat.donor])

\* no handler is between two of its awaits
Quiescent == \A c \in CallIds : calls[c].pc \in {"idle", "done"}

\* the requests of donor d that a doctor's verification made fulfilled
FulfilledFor(d) ==
  {rid \in RequestIds : /\ Exists(rid)
                        /\ requests[rid].status = "fulfilled"
                        /\ requests[rid].verifiedBy # NULL
                        /\ requests[rid].assignedDonor = d}

VerifiedDonationsOf(rid) ==
  {i \in DOMAIN donations :
     donations[i].request = rid /\ donations[i].status = "verified"}

\* the donation date of the verification that fulfilled request rid: the
\* date given to verifyDonation, or the day of the fulfillRequest call
DonationDatesOf(rid) ==
  IF VerifiedDonationsOf(rid) # {}
    THEN {donations[i].donationDate : i \in VerifiedDonationsOf(rid)}
    ELSE {requests[rid].fulfilledAt}

\* C12: each verified fulfillment adds exactly one to the assigned donor's
\* donationCount and sets that donor's lastDonationDate to the donation
\* date; nobody else's count or date changes.  With all counts starting at
\* zero: between calls every user's donationCount is the number of that
\* user's fulfilled requests, and lastDonationDate is the donation date of
\* one of them, or unset when there is none.
C12_OneCountPerFulfillment ==
  Quiescent =>
    \A d \in UserIds :
      /\ users[d].donationCount = Cardinality(FulfilledFor(d))
      /\ IF FulfilledFor(d) = {}
           THEN users[d].lastDonationDate = NoDate
           ELSE \E rid \in FulfilledFor(d) :
                  users[d].lastDonationDate \in DonationDatesOf(rid)

(***************************************************************************)
(* Two fulfillments that overlap: request 1 of r1 is matched with donor    *)
(* d1, as Spec reaches it, and there is room for two handlers.             *)
(***************************************************************************)
InitFulfillRace ==
  /\ users = [u \in UserIds |->
               CASE u = "d1" -> [NewUser("donor", "O-") EXCEPT !.isAvailable = TRUE]
                 [] u = "d2" -> NewUser("donor", "A+")
                 [] u = "r1" -> NewUser("requester", "A+")
                 [] u = "dr" -> NewUser("doctor", ABSENT)
                 [] u = "ad" -> NewUser("admin", ABSENT)]
  /\ requests = [i \in 1..MaxRequests |->
                  IF i = 1
                    THEN [NewRequest("r1", "A+") EXCEPT
                            !.status = "matched", !.assignedDonor = "d1",
                            !.matchedAt = EligibilityMonths]
                    ELSE NoRequest]
  /\ donations = <<>>
  /\ calls = [c \in CallIds |-> IdleCall]
  /\ now = EligibilityMonths
  /\ width = 2
  /\ NoSockets
  /\ compat = NoCompat

NextFulfillRace ==
  \/ fulfillRequestA
  \/ fulfillRequestB
  \/ verifyDonation
  \/ \E c \in CallIds : Return(c)

SpecFulfillRace == InitFulfillRace /\ [][NextFulfillRace]_vars

DonationsOf(rid) == {i \in DOMAIN donations : donations[i].request = rid}

\* the two slots hold two answered fulfillments of the same request, neither
\* of them cut short by a notification that threw
TwoFulfillsAnswered ==
  /\ \A c \in CallIds : /\ calls[c].pc = "done"
                        /\ calls[c].op \in FulfillOps
                        /\ calls[c].result # "ServerError"
  /\ calls[1].rid = calls[2].rid
  /\ Exists(calls[1].rid)

\* C13: of two fulfill/verifyDonation calls on the same matched request at
\* most one succeeds and a call that lost to the other fails with an
\* invalid-state error; the donor's donationCount has gone up by one only
\* and at most one Donation record references the request.
C13_FulfilledOnce ==
  TwoFulfillsAnswered =>
    LET rid == calls[1].rid
        d == requests[rid].assignedDonor
    IN /\ ~(calls[1].result = "ok" /\ calls[2].result = "ok")
       /\ \A c \in CallIds :
            calls[c].result \in {"ok", "InvalidState", "AuthorizationError",
                                 "ValidationError"}
       /\ users[d].donationCount <= 1
       /\ Cardinality(DonationsOf(rid)) <= 1

\* call c is a verifyDonation with status rejected, between two awaits
RejectedVerification(c) ==
  /\ calls[c].op = "verifyDonation"
  /\ calls[c].verification = "rejected"

IsDonationFor(donation, rid) ==
  /\ donation.request = rid
  /\ donation.donor = requests[rid].assignedDonor
  /\ donation.requester = requests[rid].requester
  /\ donation.bloodGroup = requests[rid].bloodGroup
  /\ donation.verifiedBy = requests[rid].verifiedBy

\* C15: the step that makes a request fulfilled leaves a Donation record for
\* it, with its donor, requester, blood group and verifying doctor, and
\* Donation records are only added, never changed or removed.
C15_FulfilledHasDonation ==
  [][/\ \A rid \in RequestIds :
          (requests'[rid].status = "fulfilled" /\ requests[rid].status # "fulfilled")
            => \E i \in DOMAIN donations : IsDonationFor(donations[i], rid)'
     /\ Len(donations') >= Len(donations)
     /\ \A i \in DOMAIN donations : donations'[i] = donations[i]]_vars

\* C16: a fulfill or verifyDonation call on a matched request by an actor
\* whose role is not doctor, admin included, fails with an authorization
\* error and leaves the request unchanged; only a doctor's call takes a
\* request out of the matched status.
C16_OnlyDoctorVerifies ==
  [][\A c \in CallIds :
       /\ (/\ Begins(c)
           /\ calls'[c].op \in FulfillOps
           /\ users[calls'[c].actor].role # "doctor"
           /\ Exists(calls'[c].rid)
           /\ requests[calls'[c].rid].status = "matched"
           /\ calls'[c].result # "ValidationError")
            => /\ calls'[c].pc = "done"
               /\ calls'[c].result = "AuthorizationError"
       /\ (/\ calls[c].op \in FulfillOps
           /\ calls[c].rid \in RequestIds
           /\ requests[calls[c].rid].status = "matched"
           /\ requests'[calls[c].rid].status # "matched")
            => users[calls[c].actor].role = "doctor"]_vars

\* the actor of a cancel who may cancel request rid
OwnerOrAdmin(u, rid) ==
  requests[rid].requester = u \/ users[u].role = "admin"

\* C17: a cancel goes ahead only for the owning requester or an admin and
\* only on a pending or matched request; by anybody else it fails with an
\* authorization error, on a fulfilled, cancelled or expired request it
\* fails with an invalid-state error, and a cancel that fails leaves the
\* request unchanged.
C17_CancelPreconditions ==
  [][\A c \in CallIds :
       (Begins(c) /\ calls'[c].op \in CancelOps /\ Exists(calls'[c].rid)) =>
         LET u == calls'[c].actor
             rid == calls'[c].rid
         IN /\ requests' = requests
            /\ IF ~OwnerOrAdmin(u, rid)
                 THEN calls'[c].pc = "done" /\ calls'[c].result = "AuthorizationError"
               ELSE IF requests[rid].status \in TerminalStatuses
                 THEN calls'[c].pc = "done" /\ calls'[c].result = "InvalidState"
               ELSE TRUE
            /\ calls'[c].pc # "done" =>
                 /\ OwnerOrAdmin(u, rid)
                 /\ requests[rid].status \in {"pending", "matched"}]_vars

\* one notification to each user of S and none to anybody else
OneEach(S) == [u \in UserIds |-> IF u \in S THEN 1 ELSE 0]

\* C18: a successful accept has sent one notification, to the requester; a
\* successful fulfill one to the requester and one to the assigned donor; a
\* successful cancel one to the assigned donor if the request has one and
\* none otherwise; an accept, fulfill or cancel that failed has sent none.
C18_NotifiesAffectedParties ==
  \A c \in CallIds :
    (/\ calls[c].pc = "done"
     /\ calls[c].op \in AcceptOps \cup FulfillOps \cup CancelOps) =>
      LET request == requests[calls[c].rid]
      IN IF calls[c].result # "ok"
           THEN calls[c].notified = OneEach({})
         ELSE IF calls[c].op \in AcceptOps
           THEN calls[c].notified = OneEach({request.requester})
         ELSE IF calls[c].op \in FulfillOps
           THEN calls[c].notified = OneEach({request.requester, request.assignedDonor})
         ELSE calls[c].notified = OneEach({request.assignedDonor} \ {NULL})

\* call c, an accept, fulfill, verifyDonation or cancel, is at a notifyUser
Notifying(c) ==
  /\ calls[c].op \in AcceptOps \cup FulfillOps \cup CancelOps
  /\ calls[c].pc \in {"notify", "notifyDonor", "notifyRequester"}

\* the status that the operation of call c gives its request
TransitionDone(c) ==
  requests'[calls[c].rid].status \in
    (IF calls[c].op \in AcceptOps THEN {"matched"}
     ELSE IF calls[c].op \in CancelOps THEN {"cancelled"}
     ELSE {"fulfilled", "expired"})

\* C19: whether its notifyUser resolves or throws, an accept, fulfill,
\* verifyDonation or cancel that has come to notify makes its status
\* transition and answers its caller with success.
C19_NotificationFailureTolerated ==
  [][\A c \in CallIds :
       (Notifying(c) /\ calls'[c].pc = "done") =>
         calls'[c].result = "ok" /\ TransitionDone(c)]_vars

(***************************************************************************)
(* createRequest with two donors of the requested group: d1 has changed    *)
(* the blood group of the profile to A+, and both donors are available.    *)
(***************************************************************************)
InitCreate ==
  /\ users = [u \in UserIds |->
               CASE u = "d1" -> [NewUser("donor", "A+") EXCEPT !.isAvailable = TRUE]
                 [] u = "d2" -> [NewUser("donor", "A+") EXCEPT !.isAvailable = TRUE]
                 [] u = "r1" -> NewUser("requester", "A+")
                 [] u = "dr" -> NewUser("doctor", ABSENT)
                 [] u = "ad" -> NewUser("admin", ABSENT)]
  /\ requests = [i \in 1..MaxRequests |-> NoRequest]
  /\ donations = <<>>
  /\ calls = [c \in CallIds |-> IdleCall]
  /\ now = EligibilityMonths
  /\ width = 1
  /\ NoSockets
  /\ compat = NoCompat

NextCreate ==
  \/ toggleAvailability
  \/ createRequestA
  \/ createRequestB
  \/ \E c \in CallIds : Return(c)

SpecCreate == InitCreate /\ [][NextCreate]_vars

CreateOps == {"createRequestA", "createRequestB"}

C20_WitnessNoMatch ==
  \E c \in CallIds :
    /\ calls[c].op = "createRequestA" /\ calls[c].pc = "done"
    /\ calls[c].result = "ok"
    /\ calls[c].potentialDonors = 0
    /\ calls[c].notified = OneEach({})
    /\ requests[calls[c].rid].status = "pending"
    /\ requests[calls[c].rid].assignedDonor = NULL

\* the donors that a request of blood group g has to reach: the active,
\* available donors whose group is in the recipient-side set of g (every
\* user of the model lives within the search radius)
CompatibleDonors(g) ==
  {d \in UserIds : /\ users[d].role = "donor"
                   /\ users[d].isActive
                   /\ users[d].isAvailable
                   /\ users[d].bloodGroup \in compatibleDonorGroups[g]}

\* C21: a create whose notifications all went through has notified exactly
\* the active, available donors whose blood group is in the
\* recipient-seeks-donor set of the request's group, each of them once, and
\* nobody else.
C21_NotifiesCompatibleDonors ==
  [][\A c \in CallIds :
       (/\ calls[c].op = "createRequestA" /\ calls[c].pc = "notify"
        /\ calls'[c].failed = {}) =>
         calls'[c].notified = OneEach(CompatibleDonors(calls[c].doc.bloodGroup))]_vars

(***************************************************************************)
(* rateDonor, with the handlers that bring a request to the statuses it    *)
(* is called on.  No call gets past the ownership check of rateDonor:      *)
(* request.requester.toString() is a string and req.user.id an ObjectId,   *)
(* so the statements from request.save() on are never run and have no      *)
(* action here.  The feedback text is left out of donorRating.             *)
(***************************************************************************)
\* the ratings the clients send; 0 stands for a missing rating as well
RatingInputs == {0, 1, 5, 6}

rateDonor(c, u, requestId, rating) ==
  /\ FreeSlot(c) /\ protect(u)
  /\ LET o == "rateDonor"
         call == StartCall(o, u, requestId)
         request == requests[requestId]
     IN Goto(c, IF ~restrictTo({"requester", "admin"}, u)
                  THEN Reject(o, u, requestId, "AuthorizationError")
                ELSE IF rating = 0 \/ rating < 1 \/ rating > 5
                  THEN Reject(o, u, requestId, "ValidationError")
                ELSE IF ~Exists(requestId)
                  THEN Reject(o, u, requestId, "NotFound")
                ELSE IF ~StrictEquals(toString(ObjectId(request.requester)),
                                      reqUser(u).id)
                  THEN Reject(o, u, requestId, "AuthorizationError")
                ELSE IF request.status # "fulfilled"
                  THEN Reject(o, u, requestId, "InvalidState")
                ELSE IF request.assignedDonor = NULL
                  THEN Reject(o, u, requestId, "NoDonorAssigned")
                ELSE [call EXCEPT !.pc = "save", !.orig = request,
                                  !.doc = [request EXCEPT !.donorRating = rating]])
  /\ UNCHANGED <<users, requests, donations, now, width, socketStore, io, compat>>

\* a request body that carries a donorRating
RatingBodies == {[NoBody EXCEPT !.donorRating = 4]}

NextRate ==
  \/ createRequestB
  \/ \E c \in CallIds, u \in UserIds, rid \in RequestIds, body \in RatingBodies :
       updateRequestA_Begin(c, u, rid, body)
  \/ \E c \in CallIds : updateRequestA_Update(c)
  \/ acceptRequestB
  \/ fulfillRequestB
  \/ \E c \in CallIds, u \in UserIds, rid \in RequestIds, rating \in RatingInputs :
       rateDonor(c, u, rid, rating)
  \/ \E c \in CallIds : Return(c)

SpecRate == Init /\ [][NextRate]_vars

\* C22: a rate call goes on to store its rating only when the request
\* exists, is fulfilled and has an assigned donor, the caller is its owning
\* requester and the rating is between 1 and 5; a rate call of the owning
\* requester with a valid rating on a request that is not fulfilled fails
\* with an invalid-state error and leaves the request and the donor as they
\* were.
C22_RatePreconditions ==
  [][\A c \in CallIds :
       (Begins(c) /\ calls'[c].op = "rateDonor") =>
         LET u == calls'[c].actor
             request == requests[calls'[c].rid]
         IN /\ calls'[c].pc # "done" =>
                 /\ request.status = "fulfilled"
                 /\ request.assignedDonor # NULL
                 /\ request.requester = u
                 /\ calls'[c].doc.donorRating \in 1..5
            /\ (/\ request.status \notin {ABSENT, "fulfilled"}
                /\ request.requester = u
                /\ calls'[c].result # "ValidationError")
                 => /\ calls'[c].pc = "done"
                    /\ calls'[c].result = "InvalidState"
                    /\ requests' = requests
                    /\ users' = users]_vars

\* call c is started as a rate call with a valid rating by the owning
\* requester of a fulfilled request that has its donor
OwnerRatesFulfilled(c) ==
  /\ Begins(c)
  /\ calls'[c].op = "rateDonor"
  /\ calls'[c].result # "ValidationError"
  /\ requests[calls'[c].rid].status = "fulfilled"
  /\ requests[calls'[c].rid].assignedDonor # NULL
  /\ requests[calls'[c].rid].requester = calls'[c].actor

\* C23: the rating of a request can be set once only: the owner's rate call
\* on a fulfilled request without a rating goes on to store the rating, and
\* a rate call on a fulfilled request that carries a rating already is
\* rejected and leaves the request and the donor as they were.
C23_RatingSetOnce ==
  [][\A c \in CallIds :
       OwnerRatesFulfilled(c) =>
         IF requests[calls'[c].rid].donorRating = NoRating
           THEN /\ calls'[c].pc = "save"
                /\ calls'[c].doc.donorRating \in 1..5
           ELSE /\ calls'[c].pc = "done"
                /\ calls'[c].result # "ok"
                /\ requests' = requests
                /\ users' = users]_vars

UpdateOps == {"updateRequestA", "updateRequestB"}

\* C24: an update goes ahead only for the owning requester or an admin and
\* only while the request is neither matched nor fulfilled; started on a
\* matched or fulfilled request it fails and changes nothing, and the blood
\* group of a matched or fulfilled request never changes.
C24_UpdatePreconditions ==
  [][/\ \A c \in CallIds :
          (Begins(c) /\ calls'[c].op \in UpdateOps /\ Exists(calls'[c].rid)) =>
            LET u == calls'[c].actor
                rid == calls'[c].rid
            IN /\ calls'[c].pc # "done" =>
                    /\ OwnerOrAdmin(u, rid)
                    /\ requests[rid].status \notin {"matched", "fulfilled"}
               /\ requests[rid].status \in {"matched", "fulfilled"} =>
                    /\ calls'[c].pc = "done"
                    /\ calls'[c].result \notin {"ok", "running"}
                    /\ requests' = requests
     /\ \A rid \in RequestIds :
          requests[rid].status \in {"matched", "fulfilled"} =>
            requests'[rid].bloodGroup = requests[rid].bloodGroup]_vars

\* the fields of a request that only accept, fulfill, verifyDonation, cancel
\* and rate may write
LifecycleFields ==
  {"status", "assignedDonor", "matchedAt", "verifiedBy", "verifiedAt",
   "fulfilledAt", "donorRating", "requester"}

\* C25: a step of updateRequest, whatever the request body holds, changes
\* none of the lifecycle fields of any request, and no step of any handler
\* removes a stored request.
C25_UpdateKeepsLifecycleFields ==
  [][/\ (\E c \in CallIds : calls[c].op \in UpdateOps /\ calls'[c] # calls[c]) =>
          \A rid \in RequestIds, f \in LifecycleFields :
            requests'[rid][f] = requests[rid][f]
     /\ \A rid \in RequestIds : Exists(rid) => Exists(rid)']_vars

(***************************************************************************)
(* Writes that fail.  A save() of fulfillRequest or verifyDonation may     *)
(* reject; the handler then leaves through asyncHandler's catch and what   *)
(* it wrote before stays written.  Request 1 of r1 is matched with donor   *)
(* d1, as Spec reaches it, and the calls arrive one after the other.       *)
(***************************************************************************)
InitWriteFail ==
  /\ users = [u \in UserIds |->
               CASE u = "d1" -> [NewUser("donor", "O-") EXCEPT !.isAvailable = TRUE]
                 [] u = "d2" -> NewUser("donor", "A+")
                 [] u = "r1" -> NewUser("requester", "A+")
                 [] u = "dr" -> NewUser("doctor", ABSENT)
                 [] u = "ad" -> NewUser("admin", ABSENT)]
  /\ requests = [i \in 1..MaxRequests |->
                  IF i = 1
                    THEN [NewRequest("r1", "A+") EXCEPT
                            !.status = "matched", !.assignedDonor = "d1",
                            !.matchedAt = EligibilityMonths]
                    ELSE NoRequest]
  /\ donations = <<>>
  /\ calls = [c \in CallIds |-> IdleCall]
  /\ now = EligibilityMonths
  /\ width = 1
  /\ NoSockets
  /\ compat = NoCompat

\* request.save(), donation.save() or donor.save() of the handler rejects
SaveThrows(c) ==
  /\ calls[c].op \in {"fulfillRequestA", "verifyDonation"}
  /\ calls[c].pc \in {"save", "saveDonation", "saveRequest", "saveDonor"}
  /\ Goto(c, Finish(c, "ServerError"))
  /\ UNCHANGED <<users, requests, donations, now, width, socketStore, io, compat>>

\* donor.save() of the post('save') hook rejects: the hook's catch logs the
\* error and donation.save() resolves
postSave_SaveThrows(c) ==
  /\ calls[c].op = "verifyDonation" /\ calls[c].pc = "hookSaveDonor"
  /\ Goto(c, [calls[c] EXCEPT !.pc = "saveRequest", !.doc = Verified(c)])
  /\ UNCHANGED <<users, requests, donations, now, width, socketStore, io, compat>>

NextWriteFail ==
  \/ fulfillRequestA
  \/ verifyDonation
  \/ \E c \in CallIds : SaveThrows(c)
  \/ \E c \in CallIds : postSave_SaveThrows(c)
  \/ \E c \in CallIds : Return(c)

SpecWriteFail == InitWriteFail /\ [][NextWriteFail]_vars

\* C26: a fulfill or verifyDonation that was cut short by a write that
\* failed leaves nothing behind.  Whenever no handler is running, a request
\* that is still matched has no Donation record and its donor's
\* donationCount has not gone up, and the donor of a fulfilled request has
\* the donation counted and dated.
C26_NoPartialWrites ==
  Quiescent =>
    \A rid \in RequestIds :
      LET d == requests[rid].assignedDonor
      IN /\ requests[rid].status = "matched" =>
              /\ users[d].donationCount = 0
              /\ DonationsOf(rid) = {}
         /\ (requests[rid].status = "fulfilled" /\ d # NULL) =>
              /\ users[d].donationCount >= 1
              /\ users[d].lastDonationDate # NoDate

(***************************************************************************)
(* Two matched requests of r1 with the same donor d1, as two accepts of    *)
(* d1 leave them, and room for two handlers.  The handlers are those of    *)
(* fulfillRequest; verifyDonation counts the donation with the same read,  *)
(* add and save of the donor document.                                     *)
(***************************************************************************)
RaceRequests == 2

InitTwoRequests ==
  /\ users = [u \in UserIds |->
               CASE u = "d1" -> [NewUser("donor", "O-") EXCEPT !.isAvailable = TRUE]
                 [] u = "d2" -> NewUser("donor", "A+")
                 [] u = "r1" -> NewUser("requester", "A+")
                 [] u = "dr" -> NewUser("doctor", ABSENT)
                 [] u = "ad" -> NewUser("admin", ABSENT)]
  /\ requests = [i \in 1..RaceRequests |->
                  [NewRequest("r1", "A+") EXCEPT
                     !.status = "matched", !.assignedDonor = "d1",
                     !.matchedAt = EligibilityMonths]]
  /\ donations = <<>>
  /\ calls = [c \in CallIds |-> IdleCall]
  /\ now = EligibilityMonths
  /\ width = 2
  /\ NoSockets
  /\ compat = NoCompat

NextTwoFulfills ==
  \/ fulfillRequestA
  \/ \E c \in CallIds : Return(c)

SpecTwoFulfills == InitTwoRequests /\ [][NextTwoFulfills]_vars

\* the two slots hold two fulfillments that succeeded, of two different
\* requests with the same donor
TwoFulfillsSucceeded ==
  /\ \A c \in CallIds : /\ calls[c].pc = "done"
                        /\ calls[c].op = "fulfillRequestA"
                        /\ calls[c].result = "ok"
                        /\ requests[calls[c].rid].status = "fulfilled"
  /\ calls[1].rid # calls[2].rid
  /\ requests[calls[1].rid].assignedDonor = requests[calls[2].rid].assignedDonor

\* C27: when two fulfill calls on two different matched
\* requests of the same donor have both succeeded, in whatever order their
\* steps ran, no increment of the donor's donationCount is lost: the count
\* is at least two higher than it was (it was zero).
C27_NoLostIncrement ==
  TwoFulfillsSucceeded =>
    users[requests[calls[1].rid].assignedDonor].donationCount >= 2

\* the requests of donor d that carry a rating
RatedRequestsOf(d) ==
  {rid \in RequestIds : /\ Exists(rid)
                        /\ requests[rid].assignedDonor = d
                        /\ requests[rid].donorRating # NoRating}

RECURSIVE SumOfRatings(_)
SumOfRatings(S) ==
  IF S = {} THEN 0
  ELSE LET rid == CHOOSE x \in S : TRUE
       IN requests[rid].donorRating + SumOfRatings(S \ {rid})

\* the mean of n ratings with the given sum, rounded to one decimal place,
\* in tenths
RoundedMean(sum, n) == (20 * sum + n) \div (2 * n)

\* C28: whenever no handler is running, the ratingCount of every donor is
\* the number of that donor's requests that carry a rating, and avgRating is
\* the mean of those ratings rounded to one decimal place.
C28_RatingAggregates ==
  Quiescent =>
    \A d \in UserIds :
      LET rated == RatedRequestsOf(d)
      IN /\ users[d].ratingCount = Cardinality(rated)
         /\ rated # {} =>
              users[d].avgRating =
                RoundedMean(SumOfRatings(rated), Cardinality(rated))

(***************************************************************************)
(* SocketStore: the two maps, userId -> socketId and socketId -> userId.   *)
(* A key without an entry maps to NULL here.                               *)
(***************************************************************************)
addUserSocket(store, userId, socketId) ==
  IF userId = ABSENT \/ socketId = ABSENT
    THEN store
    ELSE [userSockets |-> [store.userSockets EXCEPT ![userId] = socketId],
          socketUsers |-> [store.socketUsers EXCEPT ![socketId] = userId]]

getUserSocket(store, userId) == store.userSockets[userId]

\* Map.get and Map.delete with a key that the map does not hold
Get(map, key) == IF key \in DOMAIN map THEN map[key] ELSE NULL
Delete(map, key) == [k \in DOMAIN map |-> IF k = key THEN NULL ELSE map[k]]

removeSocketId(store, socketId) ==
  LET userId == Get(store.socketUsers, socketId)
  IN [userSockets |-> IF userId # NULL
                        THEN Delete(store.userSockets, userId)
                        ELSE store.userSockets,
      socketUsers |-> Delete(store.socketUsers, socketId)]

removeUserSockets(store, userId) ==
  LET socketId == Get(store.userSockets, userId)
  IN [socketUsers |-> IF socketId # NULL
                        THEN Delete(store.socketUsers, socketId)
                        ELSE store.socketUsers,
      userSockets |-> Delete(store.userSockets, userId)]

isUserOnline(store, userId) == store.userSockets[userId] # NULL

\* a call of one of the three methods that change the store
CallAddUserSocket(userId, socketId) ==
  /\ socketStore' = addUserSocket(socketStore, userId, socketId)
  /\ UNCHANGED <<users, requests, donations, calls, now, width, compat, io>>

CallRemoveSocketId(socketId) ==
  /\ socketStore' = removeSocketId(socketStore, socketId)
  /\ UNCHANGED <<users, requests, donations, calls, now, width, compat, io>>

CallRemoveUserSockets(userId) ==
  /\ socketStore' = removeUserSockets(socketStore, userId)
  /\ UNCHANGED <<users, requests, donations, calls, now, width, compat, io>>

NextStore ==
  \/ \E u \in SocketUserIds \cup {ABSENT}, s \in SocketIds \cup {ABSENT} :
       CallAddUserSocket(u, s)
  \/ \E s \in SocketIds \cup {ABSENT} : CallRemoveSocketId(s)
  \/ \E u \in SocketUserIds \cup {ABSENT} : CallRemoveUserSockets(u)

SpecStore == Init /\ [][NextStore]_vars

\* C29: the two maps of the socket registry are inverse to each other:
\* userSockets maps user u to socket s if and only if socketUsers maps s
\* to u.
C29_MapsInverse ==
  \A u \in SocketUserIds, s \in SocketIds :
    socketStore.userSockets[u] = s <=> socketStore.socketUsers[s] = u

(***************************************************************************)
(* setupSocket: the connections of socket.io with their authenticate and   *)
(* disconnect events.  io.sockets tells whether a socket is new, connected *)
(* or closed; io.latest remembers the socket on which each user            *)
(* authenticated most recently.  A socket id is not used twice.            *)
(***************************************************************************)
\* io.on('connection', socket => ...)
connection(s) ==
  /\ io.sockets[s] = "new"
  /\ io' = [io EXCEPT !.sockets[s] = "connected"]
  /\ UNCHANGED <<users, requests, donations, calls, now, width, compat, socketStore>>

\* socket.on('authenticate', userId => ...)
authenticate(s, userId) ==
  /\ io.sockets[s] = "connected"
  /\ IF userId = ABSENT
       THEN UNCHANGED <<socketStore, io>>
       ELSE /\ socketStore' = addUserSocket(socketStore, userId, s)
            /\ io' = [io EXCEPT !.latest[userId] = s]
  /\ UNCHANGED <<users, requests, donations, calls, now, width, compat>>

\* socket.on('disconnect', () => ...)
disconnect(s) ==
  /\ io.sockets[s] = "connected"
  /\ socketStore' = removeSocketId(socketStore, s)
  /\ io' = [io EXCEPT !.sockets[s] = "closed"]
  /\ UNCHANGED <<users, requests, donations, calls, now, width, compat>>

NextSocket ==
  \/ \E s \in SocketIds : connection(s)
  \/ \E s \in SocketIds, u \in SocketUserIds \cup {ABSENT} : authenticate(s, u)
  \/ \E s \in SocketIds : disconnect(s)

SpecSocket == Init /\ [][NextSocket]_vars

\* C30: while the socket on which user u authenticated most recently has
\* not disconnected, isUserOnline(u) is true and getUserSocket(u) is that
\* socket.
C30_ReachableWhileConnected ==
  \A u \in SocketUserIds :
    (io.latest[u] # NULL /\ io.sockets[io.latest[u]] = "connected") =>
      /\ isUserOnline(socketStore, u)
      /\ getUserSocket(socketStore, u) = io.latest[u]

====
